---- MODULE Spec2Model ----
(***************************************************************************)
(* A model of the Nuth and Kaab coregistration of DemUtils/coreg.py:       *)
(* calculate_nmad, get_horizontal_shift and amaury_coregister_dem.         *)
(*                                                                         *)
(* float64 values are held as exact fixed-point integers; the three        *)
(* non-finite floats are the sentinels NaN, PosInf and NegInf.  Rounding   *)
(* of the floating-point operations is not modelled.                       *)
(***************************************************************************)
EXTENDS Integers, Sequences, FiniteSets, TLC

VARIABLES
    \* ---- calculate_nmad, called on its own ----
    nm_pc,          \* "input" before the first call, "returned" after a call
    nm_array,       \* the array handed to calculate_nmad
    nm_result,      \* what the last call returned
    nm_prev,        \* what the call before it returned
    nm_last_op,     \* how nm_array was obtained from the array of the previous call
    \* ---- get_horizontal_shift, called on its own ----
    sh_pc,          \* "input" before the first call, "returned" after a call
    sh_difference,  \* elevation_difference, flattened
    sh_slope,       \* slope, flattened
    sh_aspect,      \* aspect, flattened, in hundredths of a degree
    sh_min_count,   \* min_count
    sh_result,      \* what the last call did
    sh_calls,       \* the calls made
    \* ---- deramping, called on its own ----
    dr_pc,          \* the position in deramping
    dr_degree,      \* degree
    dr_n,           \* the number of finite elevation differences
    dr_fit_size,    \* the number of samples handed to the fit
    dr_draw,        \* the lowest and highest index a sample of the fit can come from
    dr_pick,        \* one sample of the fit: the indices of its value, its x and its y
    dr_coefficients,    \* the coefficient vector last handed to estimate_values
    dr_terms,       \* the (index, x exponent, y exponent) read by that evaluation
    dr_xy,          \* the coordinate pair of that evaluation
    dr_value,       \* what that evaluation returned
    dr_error,       \* the exception that left deramping or the ramp
    \* ---- calculate_slope_and_aspect, called on its own ----
    as_pc,          \* "input" before the first call, "returned" after a call
    as_dem,         \* dem
    as_gradient,    \* the (x, y) gradient of the plane dem is
    as_slope,       \* slope_px of the last call, in half units
    as_aspect,      \* aspect of the last call, in hundredths of a degree
    as_prev,        \* aspect of the call before it
    as_last_op,     \* how as_dem was obtained from the dem of the call before
    \* ---- a DEM object and the calls of its set_vref ----
    vr_pc,          \* "ready" for a call, "returned" or "raised" after it
    vr_name,        \* the argument vref_name
    vr_grid,        \* the argument vref_grid
    vref,           \* self.vref
    vref_grid,      \* self.vref_grid
    vr_error,       \* the exception that left set_vref
    vr_calls,       \* the calls made
    \* ---- the masking of a resampled grid, on its own ----
    rs_pc,          \* "resample", "evaluated" once the two splines returned, "assigned"
    new_elevation,  \* what elevation_function returned, cell by cell
    new_nans,       \* what nodata_function returned, cell by cell
    rs_aligned_dem, \* aligned_dem once new_elevation is assigned to it
    \* ---- amaury_coregister_dem: its arguments ----
    reference_dem,
    dem_to_be_aligned,
    max_iterations,
    error_threshold,    \* in units of 1/(2 * NmadDen)
    deramping_degree,   \* None or an integer >= 0
    verbose,
    \* ---- amaury_coregister_dem: its local variables ----
    pc,                 \* the position in the function
    aligned_dem,        \* in half units
    aligned_is_input,   \* aligned_dem is the very array dem_to_be_aligned is
    slope,              \* in half units
    aspect,             \* in hundredths of a degree
    elevation_function, \* the grid the elevation spline was fitted to, in half units
    nodata_function,    \* the grid the no-data spline was fitted to
    offset_east,
    offset_north,
    i,                  \* the index of the iteration
    nmad,               \* in units of 1/(2 * NmadDen)
    assigned,           \* the local variables that have been assigned
    \* ---- amaury_coregister_dem: what the caller gets ----
    result,             \* <<aligned_dem, nmad>> once returned
    error,              \* the exception that left the function
    \* ---- amaury_coregister_dem: the record of the run ----
    n_shift,            \* calls of get_horizontal_shift that returned
    n_resample,         \* evaluations of the two splines
    estimate_sum,       \* the sum of the (east_diff, north_diff) returned so far
    loop_exit           \* how the loop was left and what it left behind

nmVars == <<nm_pc, nm_array, nm_result, nm_prev, nm_last_op>>

shVars == <<sh_pc, sh_difference, sh_slope, sh_aspect, sh_min_count, sh_result,
            sh_calls>>

drVars == <<dr_pc, dr_degree, dr_n, dr_fit_size, dr_draw, dr_pick, dr_coefficients,
            dr_terms, dr_xy, dr_value, dr_error>>

asVars == <<as_pc, as_dem, as_gradient, as_slope, as_aspect, as_prev, as_last_op>>

vrVars == <<vr_pc, vr_name, vr_grid, vref, vref_grid, vr_error, vr_calls>>

rsVars == <<rs_pc, new_elevation, new_nans, rs_aligned_dem>>

argVars == <<reference_dem, dem_to_be_aligned, max_iterations, error_threshold,
             deramping_degree, verbose>>

drvVars == <<pc, aligned_dem, aligned_is_input, slope, aspect, elevation_function, nodata_function,
             offset_east, offset_north, i, nmad, assigned, result, error,
             n_shift, n_resample, estimate_sum, loop_exit>>

vars == <<nmVars, shVars, drVars, asVars, vrVars, rsVars, argVars, drvVars>>

-----------------------------------------------------------------------------
(* float64: the non-finite values and the arithmetic that meets them *)

\* np.nan
NaN == 2000000001
\* np.inf, the result of x / 0 for x > 0
PosInf == 2000000000
NegInf == -PosInf

\* np.isnan and np.isfinite
IsNaN(v) == v = NaN
IsFinite(v) == NegInf < v /\ v < PosInf

\* a - b on floats: nan if either is nan or both are the same infinity
FSub(a, b) ==
    IF IsFinite(a) /\ IsFinite(b) THEN a - b
    ELSE IF IsNaN(a) \/ IsNaN(b) THEN NaN
    ELSE IF a = PosInf THEN (IF b = PosInf THEN NaN ELSE PosInf)
    ELSE IF a = NegInf THEN (IF b = NegInf THEN NaN ELSE NegInf)
    ELSE IF b = PosInf THEN NegInf
    ELSE IF b = NegInf THEN PosInf
    ELSE a - b

\* a + b on floats
FAdd(a, b) ==
    IF IsFinite(a) /\ IsFinite(b) THEN a + b
    ELSE IF IsNaN(a) \/ IsNaN(b) THEN NaN
    ELSE IF a = PosInf THEN (IF b = NegInf THEN NaN ELSE PosInf)
    ELSE IF a = NegInf THEN (IF b = PosInf THEN NaN ELSE NegInf)
    ELSE IF b = PosInf \/ b = NegInf THEN b
    ELSE a + b

\* np.abs
FAbs(a) ==
    IF IsFinite(a) THEN (IF a < 0 THEN -a ELSE a)
    ELSE IF IsNaN(a) THEN NaN
    ELSE IF a = PosInf \/ a = NegInf THEN PosInf
    ELSE IF a < 0 THEN -a ELSE a

\* k * a for a constant k > 0
FScale(k, a) == IF IsFinite(a) THEN k * a ELSE a

\* a < b on floats: every comparison with nan is False
FLess(a, b) == ~IsNaN(a) /\ ~IsNaN(b) /\ a < b

\* The sum of f[e] over the e of S
RECURSIVE SumOver(_, _)
SumOver(f, S) ==
    IF S = {} THEN 0
    ELSE LET e == CHOOSE e \in S : TRUE IN f[e] + SumOver(f, S \ {e})

-----------------------------------------------------------------------------
(* np.nanmedian *)

\* The k-th smallest value (k = 1 .. Len(s)) of a sequence without nan, found
\* as np.partition finds it: by splitting around a value of the sequence.
RECURSIVE OrderStatistic(_, _)
OrderStatistic(s, k) ==
    LET pivot   == s[(Len(s) + 1) \div 2]
        below   == SelectSeq(s, LAMBDA v : v < pivot)
        n_below == Len(below)
        n_equal == Len(SelectSeq(s, LAMBDA v : v = pivot))
    IN  IF k <= n_below THEN OrderStatistic(below, k)
        ELSE IF k <= n_below + n_equal THEN pivot
        ELSE OrderStatistic(SelectSeq(s, LAMBDA v : v > pivot), k - n_below - n_equal)

FiniteOnly(a) == SelectSeq(a, LAMBDA v : IsFinite(v))

KeepNan(a) == a

\* The values np.nanmedian works on: the array without its nans.  Infinite
\* values are not removed.
WithoutNan(a) == SelectSeq(a, LAMBDA v : ~IsNaN(v))

\* Twice np.nanmedian(a) (the mean of the two middle values is kept exact):
\* the middle value of the non-nan values in ascending order, or the sum of
\* the two middle ones; nan when no value is left.
nanmedian2(a) ==
    LET s == WithoutNan(a)
        n == Len(s)
    IN  IF n = 0 THEN NaN
        ELSE IF n % 2 = 1
             THEN LET m == OrderStatistic(s, (n + 1) \div 2) IN FAdd(m, m)
             ELSE FAdd(OrderStatistic(s, n \div 2), OrderStatistic(s, n \div 2 + 1))

-----------------------------------------------------------------------------
(* calculate_nmad *)

\* 1.4826, in units of 1/10000
NmadFactor == 14826

\* The unit of a value returned by calculate_nmad, as a fraction of the unit
\* of its input: the two medians each double the scale, 1.4826 is
\* NmadFactor / 10000.
NmadDen == 4 * 10000

\* array - np.nanmedian(array), in half units of the input
Deviations2(array) ==
    LET m2 == nanmedian2(array)
    IN  [k \in 1..Len(array) |-> FAbs(FSub(FScale(2, array[k]), m2))]

\* nmad = 1.4826 * np.nanmedian(np.abs(array - np.nanmedian(array))),
\* in units of 1/NmadDen of the input unit
calculate_nmad(array) == FScale(NmadFactor, nanmedian2(Deviations2(array)))

-----------------------------------------------------------------------------
(* get_horizontal_shift *)

\* Angles are held in hundredths of a degree.
\* step = np.pi / 36
AspectStep == 500
\* stop = 2 * np.pi
TwoPi == 36000
\* min_count: int = 30
DefaultMinCount == 30
\* if slice_bounds.shape[0] < 10
MinBins == 10
\* np.abs(y_values) < 200
YCap == 200

\* The unit of y = elevation_difference / slope is 1/YDen: the quotient is
\* exact for the slopes 1, 2, 3, 4, 5 and 6.
YDen == 3 * 4 * 5

\* a / b on floats under np.errstate(divide="ignore", invalid="ignore"),
\* a and b in one unit, the quotient in units of 1/YDen
FDiv(a, b) ==
    IF IsNaN(a) \/ IsNaN(b) THEN NaN
    ELSE IF b = 0 THEN (IF a = 0 THEN NaN ELSE IF a > 0 THEN PosInf ELSE NegInf)
    ELSE IF ~IsFinite(b) THEN (IF IsFinite(a) THEN 0 ELSE NaN)
    ELSE IF ~IsFinite(a) THEN (IF (a > 0) = (b > 0) THEN PosInf ELSE NegInf)
    ELSE (YDen * a) \div b

\* input_y_values = elevation_difference / slope
InputY(elevation_difference, slope_map) ==
    [k \in 1..Len(elevation_difference) |-> FDiv(elevation_difference[k], slope_map[k])]

\* The (x, y) pairs left by "Remove non-finite values": aspect and quotient
\* both finite, in the order of the arrays.
FiniteSamples(elevation_difference, slope_map, aspect_map) ==
    LET y == InputY(elevation_difference, slope_map)
        pairs == [k \in 1..Len(aspect_map) |-> <<aspect_map[k], y[k]>>]
    IN  SelectSeq(pairs, LAMBDA p : IsFinite(p[1]) /\ IsFinite(p[2]))

\* 100 * np.percentile(s, q) for a non-empty sequence s of finite values:
\* linear interpolation between the two order statistics around
\* (n - 1) * q / 100.
Percentile100(s, q) ==
    LET pos == (Len(s) - 1) * q
        lo  == pos \div 100 + 1
        hi  == IF lo < Len(s) THEN lo + 1 ELSE lo
        below == OrderStatistic(s, lo)
        above == OrderStatistic(s, hi)
    IN  100 * below + (pos % 100) * (above - below)

\* valids = (y > lower_percentile) & (y < upper_percentile) & (abs(y) < 200)
IsValid(y, lower100, upper100) ==
    /\ 100 * y > lower100
    /\ 100 * y < upper100
    /\ (IF y < 0 THEN -y ELSE y) < YCap * YDen

\* The (x, y) pairs left by "Remove outliers".
RetainedSamples(samples) ==
    IF Len(samples) = 0 THEN samples
    ELSE LET ys == [k \in 1..Len(samples) |-> samples[k][2]]
             lower100 == Percentile100(ys, 1)
             upper100 == Percentile100(ys, 99)
         IN  SelectSeq(samples, LAMBDA p : IsValid(p[2], lower100, upper100))

\* slice_bounds = np.arange(start=0, stop=2 * np.pi, step=step)
slice_bounds == {AspectStep * b : b \in 0..((TwoPi \div AspectStep) - 1)}

\* y_slice = y_values[(bound < x_values) & (x_values < (bound + step))]
InSlice(x, bound) == bound < x /\ x < bound + AspectStep

\* count[i] = y_slice.shape[0], for every bound: the samples are counted
\* once per distinct x, and a slice gets the samples of the x inside it
BinCount(samples) ==
    LET xs == {samples[k][1] : k \in 1..Len(samples)}
        copies == [x \in xs |-> Cardinality({k \in 1..Len(samples) : samples[k][1] = x})]
    IN  [bound \in slice_bounds |-> SumOver(copies, {x \in xs : InSlice(x, bound)})]

KeptBoundsAtLeast(count, min_count) ==
    {bound \in slice_bounds : count[bound] >= min_count}

\* slice_bounds = slice_bounds[count > min_count]
KeptBounds(count, min_count) == {bound \in slice_bounds : count[bound] > min_count}

\* if slice_bounds.shape[0] < 10: raise ValueError("Less than 10 different cells exist.")
TooFewBins(kept) == Cardinality(kept) < MinBins

\* get_horizontal_shift up to the least-squares fit: the retained samples, the
\* count of every bin, the bounds that are kept and whether the ValueError is
\* raised.  np.percentile of an empty array is not modelled: the arrays hold
\* at least one finite sample, or the outcome is taken to be that of no
\* retained sample.
get_horizontal_shift(elevation_difference, slope_map, aspect_map, min_count) ==
    LET retained == RetainedSamples(FiniteSamples(elevation_difference, slope_map, aspect_map))
        count    == BinCount(retained)
        kept     == KeptBounds(count, min_count)
    IN  [retained |-> retained, count |-> count, kept |-> kept, raised |-> TooFewBins(kept)]

-----------------------------------------------------------------------------
(* 2-D arrays: a grid g has the rows 0..n-1 and the columns 0..m-1, g[r][c] *)

NumRows(g) == Cardinality(DOMAIN g)
NumCols(g) == Cardinality(DOMAIN g[0])

ShapeRowsOnly(g) == <<NumRows(g)>>

\* array.shape
Shape(g) == <<NumRows(g), NumCols(g)>>

\* The cells of a grid in row-major order, as the 1-D functions above take them.
Flat(g) ==
    LET m == NumCols(g)
    IN  [k \in 1..(NumRows(g) * m) |-> g[(k - 1) \div m][(k - 1) % m]]

\* a - b, cell by cell
GridSub(a, b) == [r \in DOMAIN a |-> [c \in DOMAIN a[r] |-> FSub(a[r][c], b[r][c])]]

\* a - v for a scalar v
GridSubScalar(a, v) == [r \in DOMAIN a |-> [c \in DOMAIN a[r] |-> FSub(a[r][c], v)]]

\* Elevations inside amaury_coregister_dem are held in half units: the median
\* of an even number of whole elevations is then exact.
Halves(g) == [r \in DOMAIN g |-> [c \in DOMAIN g[r] |-> FScale(2, g[r][c])]]

-----------------------------------------------------------------------------
(* calculate_slope_and_aspect *)

\* arctan(k / 2) in hundredths of a degree, k = 0..24
AtanTable ==
    <<0, 2657, 4500, 5631, 6343, 6820, 7157, 7405, 7596, 7747, 7869, 7970, 8054,
      8125, 8187, 8241, 8287, 8329, 8366, 8399, 8429, 8456, 8481, 8503, 8524>>

\* np.arctan of g2 / 2.  Beyond the table the angle lies between 85 and
\* 90 degrees and is given as 87.5 degrees.
Arctan(g2) ==
    LET k == IF g2 < 0 THEN -g2 ELSE g2
        a == IF k < Len(AtanTable) THEN AtanTable[k + 1] ELSE 8750
    IN  IF IsNaN(g2) THEN NaN ELSE IF g2 < 0 THEN -a ELSE a

\* np.sqrt of a sum of two squares: exact when the sum is a square, rounded
\* down otherwise
SqrtSumSq(a, b) ==
    LET aa == IF a < 0 THEN -a ELSE a
        bb == IF b < 0 THEN -b ELSE b
    IN  IF IsNaN(a) \/ IsNaN(b) THEN NaN
        ELSE CHOOSE k \in 0..(aa + bb) : k * k <= a * a + b * b /\ a * a + b * b < (k + 1) * (k + 1)

\* Twice np.gradient of dem along its rows (axis 0) and along its columns
\* (axis 1) at the cell (r, c) of a grid of nr rows and nc columns: central
\* differences inside, one-sided differences at both ends.
GradientY2(dem, nr, r, c) ==
    IF r = 0 THEN FScale(2, FSub(dem[1][c], dem[0][c]))
    ELSE IF r = nr - 1 THEN FScale(2, FSub(dem[nr - 1][c], dem[nr - 2][c]))
    ELSE FSub(dem[r + 1][c], dem[r - 1][c])

GradientX2(dem, nc, r, c) ==
    IF c = 0 THEN FScale(2, FSub(dem[r][1], dem[r][0]))
    ELSE IF c = nc - 1 THEN FScale(2, FSub(dem[r][nc - 1], dem[r][nc - 2]))
    ELSE FSub(dem[r][c + 1], dem[r][c - 1])

\* slope_px = np.sqrt(gradient_x ** 2 + gradient_y ** 2), in half units
SlopeOf(gradient_x2, gradient_y2) == SqrtSumSq(gradient_x2, gradient_y2)

\* aspect = np.arctan(-gradient_x, gradient_y); aspect += np.pi
\* The second positional argument of np.arctan is the array the result is
\* written to, so the angle is that of -gradient_x alone.
AspectOf(gradient_x2, gradient_y2) == FAdd(Arctan(FSub(0, gradient_x2)), TwoPi \div 2)

calculate_slope_and_aspect(dem) ==
    LET nr == NumRows(dem)
        nc == NumCols(dem)
        gradient_y == [r \in DOMAIN dem |-> [c \in DOMAIN dem[r] |-> GradientY2(dem, nr, r, c)]]
        gradient_x == [r \in DOMAIN dem |-> [c \in DOMAIN dem[r] |-> GradientX2(dem, nc, r, c)]]
    IN  [slope  |-> [r \in DOMAIN dem |-> [c \in DOMAIN dem[r] |->
                        SlopeOf(gradient_x[r][c], gradient_y[r][c])]],
         aspect |-> [r \in DOMAIN dem |-> [c \in DOMAIN dem[r] |->
                        AspectOf(gradient_x[r][c], gradient_y[r][c])]]]

-----------------------------------------------------------------------------
(* deramping *)

\* deramping_degree = None
None == -1

\* coefficient_size = (degree + 1) * (degree + 2) / 2
CoefficientSize(degree) == ((degree + 1) * (degree + 2)) \div 2

RECURSIVE Pow(_, _)
Pow(x, n) == IF n = 0 THEN 1 ELSE x * Pow(x, n - 1)

\* The exponent pairs of estimate_values: for k in range(degree + 1) for j in range(k + 1)
ExponentPairs(degree) == {<<k, j>> \in (0..degree) \X (0..degree) : j <= k}

CoefficientIndexShort(k, j) == (k * (k - 1)) \div 2 + j + 1

\* coefficients[k * (k + 1) // 2 + j], the coefficient vector being 1-based here
CoefficientIndex(k, j) == (k * (k + 1)) \div 2 + j + 1

estimate_values_swapped(x, y, coefficients, degree) ==
    SumOver([kj \in ExponentPairs(degree) |->
                coefficients[CoefficientIndex(kj[1], kj[2])]
                    * Pow(y, kj[1] - kj[2]) * Pow(x, kj[2])],
            ExponentPairs(degree))

\* estimate_values at one coordinate pair, the length check passed
estimate_values(x, y, coefficients, degree) ==
    SumOver([kj \in ExponentPairs(degree) |->
                coefficients[CoefficientIndex(kj[1], kj[2])]
                    * Pow(x, kj[1] - kj[2]) * Pow(y, kj[2])],
            ExponentPairs(degree))

\* if len(coefficients) != coefficient_size: raise ValueError()
EvaluatorRaises(coefficients, degree) == Len(coefficients) # CoefficientSize(degree)

\* The (index, exponent of x, exponent of y) of every term of the sum of
\* estimate_values, the index 0-based as in the code
TermsRead(degree) ==
    {<<CoefficientIndex(kj[1], kj[2]) - 1, kj[1] - kj[2], kj[2]>> : kj \in ExponentPairs(degree)}

InitialGuessSizeSquare(degree) == (degree + 1) * (degree + 1)

\* the shape of initial_guess: (degree + 1) * (degree + 2) // 2
InitialGuessSize(degree) == ((degree + 1) * (degree + 2)) \div 2

\* initial_guess = np.zeros(shape=((degree + 1) * (degree + 2) // 2))
initial_guess(degree) == [k \in 1..InitialGuessSize(degree) |-> 0]

\* The coefficient vectors scipy.optimize.leastsq hands to residuals, and the
\* one it returns, when it starts from x0: vectors of the length of x0.
LeastsqTrials(x0) ==
    {x0, [k \in 1..Len(x0) |-> k]}
        \cup {[k \in 1..Len(x0) |-> IF k = p THEN 1 ELSE 0] : p \in 1..Len(x0)}

\* if valid_x_coords.shape[0] > 500_000
SubsampleLimit == 500000

\* The lowest and the highest integer np.random.randint(low, high, size) can
\* return: high is exclusive.
RandintRange(low, high) == [low |-> low, high |-> high - 1]

\* random_indices = np.random.randint(0, valid_x_coords.shape[0] - 1, 500_000)
RandomIndexRange(n) == RandintRange(0, n - 1)

\* The coefficient vectors scipy.optimize.leastsq may return for a degree,
\* in half units: the zero vector and one with a constant and a last term.
FitCoefficients(degree) ==
    LET n == CoefficientSize(degree)
    IN  {[k \in 1..n |-> 0], [k \in 1..n |-> IF k = 1 \/ k = n THEN 1 ELSE 0]}

\* ramp(x_coordinates, y_coordinates) on the meshgrid of a grid's shape:
\* x is the column, y the row
RampGrid(g, coefficients, degree) ==
    [r \in DOMAIN g |-> [c \in DOMAIN g[r] |-> estimate_values(c, r, coefficients, degree)]]

-----------------------------------------------------------------------------
(* amaury_coregister_dem: the splines *)

Clamp(v, lo, hi) == IF v < lo THEN lo ELSE IF v > hi THEN hi ELSE v

\* scipy.interpolate.RectBivariateSpline(x=north_grid, y=east_grid, z=z),
\* evaluated at the row x and the column y, both whole numbers: the spline
\* interpolates z at the grid points, and a coordinate outside the grid is
\* moved to the nearest edge.  nr and nc are the numbers of rows and columns of z.
SplineAt(z, nr, nc, x, y) == z[Clamp(x, 0, nr - 1)][Clamp(y, 0, nc - 1)]

\* np.isnan(aligned_dem) as the 0/1 grid the no-data spline is fitted to
IsNanGrid(g) == [r \in DOMAIN g |-> [c \in DOMAIN g[r] |-> IF IsNaN(g[r][c]) THEN 1 ELSE 0]]

IsAboveZero(v) == v > 0

\* new_nans != 0
IsNewNan(v) == v # 0

ResamplePlusNorth(elev, nodata, east, north) ==
    LET nr == NumRows(elev)
        nc == NumCols(elev)
    IN  [r \in DOMAIN elev |-> [c \in DOMAIN elev[r] |->
            IF IsNewNan(SplineAt(nodata, nr, nc, r + north, c + east)) THEN NaN
            ELSE SplineAt(elev, nr, nc, r + north, c + east)]]

\* new_elevation = elevation_function(y=east_grid + offset_east, x=north_grid - offset_north)
\* new_nans = nodata_function(y=east_grid + offset_east, x=north_grid - offset_north)
\* new_elevation[new_nans != 0] = np.nan
Resample(elev, nodata, east, north) ==
    LET nr == NumRows(elev)
        nc == NumCols(elev)
    IN  [r \in DOMAIN elev |-> [c \in DOMAIN elev[r] |->
            IF IsNewNan(SplineAt(nodata, nr, nc, r - north, c + east)) THEN NaN
            ELSE SplineAt(elev, nr, nc, r - north, c + east)]]

-----------------------------------------------------------------------------
(* amaury_coregister_dem: the steps of the loop *)

\* np.nanmedian(aligned_dem - reference_dem), aligned_dem in half units: the
\* cells of a resampled grid are whole elevations, so half the doubled median
\* is exact.
MedianBias(aligned, reference) ==
    LET m2 == nanmedian2(Flat(GridSub(aligned, Halves(reference))))
    IN  IF IsFinite(m2) THEN m2 \div 2 ELSE m2

\* aligned_dem -= np.nanmedian(aligned_dem - reference_dem)
RemoveBias(aligned, reference) == GridSubScalar(aligned, MedianBias(aligned, reference))

\* elevation_difference = reference_dem - aligned_dem
ElevationDifference(reference, aligned) == GridSub(Halves(reference), aligned)

\* the 5 of "i > 5"
MinIterations == 5

\* for i in trange(max_iterations, ...): idx is one of the indices
InRangeInclusive(idx, stop) == idx <= stop

InRange(idx, stop) == idx < stop

StopNowFromFive(idx, nmad_now, threshold) ==
    idx >= MinIterations /\ FLess(nmad_now, threshold)

\* if i > 5 and nmad < error_threshold: break
StopNow(idx, nmad_now, threshold) == idx > MinIterations /\ FLess(nmad_now, threshold)

-----------------------------------------------------------------------------
(* amaury_coregister_dem: the grids and arguments it is called with *)

\* rows and columns of the reference grid
NRows == 33
NCols == 12
\* largest max_iterations
MaxIterations == 7
\* largest offset, in pixels, on either axis
MaxOffset == 1

\* error_threshold: float = 0.05, in units of 1/(2 * NmadDen)
DefaultThreshold == 4000

\* The reference terrain varies along the columns only.  Its doubled
\* gradients run through ColumnGradients, so that ten aspect slices are met
\* and every slope divides YDen.
ColumnGradients == <<1, 3, 4, 5, 6, -1, -3, -4, -5, -6>>

TerrainHeight[c \in 0..(NCols + 1)] ==
    IF c < 2 THEN 0
    ELSE TerrainHeight[c - 2] + ColumnGradients[((c - 2) % Len(ColumnGradients)) + 1]

Terrain(nr, nc) == [r \in 0..(nr - 1) |-> [c \in 0..(nc - 1) |-> TerrainHeight[c]]]

\* A few cells one unit above and a few one unit below the terrain.
SparseNoise(r, c) ==
    LET k == (7 * r + c) % 37
    IN  IF k = 0 THEN 1 ELSE IF k = 5 THEN -1 ELSE 0

\* The reference with a vertical bias of 3 and the sparse noise.
NoisyCopy(nr, nc) ==
    [r \in 0..(nr - 1) |-> [c \in 0..(nc - 1) |-> TerrainHeight[c] + 3 + SparseNoise(r, c)]]

\* The pairs (reference_dem, dem_to_be_aligned): a noisy biased copy, an
\* identical copy, and a grid with one column less.
GridPairs ==
    {<<Terrain(NRows, NCols), NoisyCopy(NRows, NCols)>>,
     <<Terrain(NRows, NCols), Terrain(NRows, NCols)>>,
     <<Terrain(NRows, NCols), NoisyCopy(NRows, NCols - 1)>>}

\* The (east_diff, north_diff) pairs get_horizontal_shift may return, whole pixels.
ShiftEstimates == {<<0, 0>>, <<1, 0>>, <<-1, 0>>, <<0, 1>>}

NoGrid == <<>>

\* The record of a loop that has not been left.
NotLeft == [how |-> "none", aligned_dem |-> NoGrid, nmad |-> NaN]

ShIdle ==
    /\ sh_pc = "idle" /\ sh_difference = <<>> /\ sh_slope = <<>> /\ sh_aspect = <<>>
    /\ sh_min_count = 0 /\ sh_result = <<>> /\ sh_calls = 0

NoDraw == [low |-> 0, high |-> -1]

AsIdle ==
    /\ as_pc = "idle" /\ as_dem = NoGrid /\ as_gradient = <<0, 0>> /\ as_slope = NoGrid
    /\ as_aspect = NoGrid /\ as_prev = NoGrid /\ as_last_op = "none"

VrIdle ==
    /\ vr_pc = "idle" /\ vr_name = "" /\ vr_grid = "" /\ vref = "" /\ vref_grid = ""
    /\ vr_error = "none" /\ vr_calls = 0

RsIdle ==
    /\ rs_pc = "idle" /\ new_elevation = <<>> /\ new_nans = <<>>
    /\ rs_aligned_dem = <<>>

DrIdle ==
    /\ dr_pc = "idle" /\ dr_degree = 0 /\ dr_n = 0 /\ dr_fit_size = 0
    /\ dr_draw = NoDraw /\ dr_pick = <<>> /\ dr_coefficients = <<>>
    /\ dr_terms = {} /\ dr_xy = <<>> /\ dr_value = 0 /\ dr_error = "none"

DrvIdle ==
    /\ reference_dem = NoGrid /\ dem_to_be_aligned = NoGrid
    /\ max_iterations = 0 /\ error_threshold = 0 /\ deramping_degree = None
    /\ verbose = FALSE
    /\ pc = "idle"
    /\ aligned_dem = NoGrid /\ slope = NoGrid /\ aspect = NoGrid
    /\ elevation_function = NoGrid /\ nodata_function = NoGrid
    /\ offset_east = 0 /\ offset_north = 0 /\ i = 0 /\ nmad = NaN
    /\ assigned = {} /\ result = <<>> /\ error = "none"
    /\ n_shift = 0 /\ n_resample = 0 /\ loop_exit = NotLeft
    /\ estimate_sum = <<0, 0>>
    /\ aligned_is_input = FALSE

NmIdle ==
    /\ nm_pc = "idle" /\ nm_array = <<>> /\ nm_result = NaN /\ nm_prev = NaN
    /\ nm_last_op = "none"

\* The call amaury_coregister_dem(reference_dem, dem_to_be_aligned,
\* max_iterations, error_threshold, deramping_degree, verbose)
DrvInit ==
    /\ AsIdle
    /\ VrIdle
    /\ RsIdle
    /\ NmIdle
    /\ ShIdle
    /\ DrIdle
    /\ \E gp \in GridPairs : reference_dem = gp[1] /\ dem_to_be_aligned = gp[2]
    /\ max_iterations \in 0..MaxIterations
    /\ error_threshold \in {0, DefaultThreshold}
    /\ deramping_degree \in {None, 0, 1}
    /\ verbose \in BOOLEAN
    /\ pc = "call"
    /\ aligned_dem = NoGrid /\ slope = NoGrid /\ aspect = NoGrid
    /\ elevation_function = NoGrid /\ nodata_function = NoGrid
    /\ offset_east = 0 /\ offset_north = 0 /\ i = 0 /\ nmad = NaN
    /\ assigned = {} /\ result = <<>> /\ error = "none"
    /\ n_shift = 0 /\ n_resample = 0 /\ loop_exit = NotLeft
    /\ estimate_sum = <<0, 0>>
    /\ aligned_is_input = FALSE

InputItself == TRUE

\* dem_to_be_aligned.copy(): whether the array returned is the array copied
CopyIsInput == FALSE

\* What the array dem_to_be_aligned holds once aligned_dem, in half units, was
\* written in place: the values written when the two are one array.
WrittenThrough(input, is_input, written) ==
    IF is_input
    THEN [r \in DOMAIN written |-> [c \in DOMAIN written[r] |->
             IF IsFinite(written[r][c]) THEN written[r][c] \div 2 ELSE written[r][c]]]
    ELSE input

\* An exception is raised and nothing catches it: the call is over.
Raise(exception) ==
    /\ pc' = "raised"
    /\ error' = exception

-----------------------------------------------------------------------------
(* amaury_coregister_dem: the actions *)

\* aligned_dem = dem_to_be_aligned.copy()
\* assert reference_dem.shape == aligned_dem.shape
DrvCopyAndAssert ==
    /\ pc = "call"
    /\ aligned_dem' = Halves(dem_to_be_aligned)
    /\ aligned_is_input' = CopyIsInput
    /\ assigned' = assigned \cup {"aligned_dem"}
    /\ IF Shape(reference_dem) = Shape(dem_to_be_aligned)
       THEN pc' = "setup" /\ error' = error
       ELSE Raise("AssertionError")
    /\ UNCHANGED <<slope, aspect, elevation_function, nodata_function, offset_east,
                   offset_north, i, nmad, result, n_shift, n_resample, loop_exit, estimate_sum>>
    /\ UNCHANGED <<nmVars, shVars, drVars, asVars, vrVars, rsVars, argVars>>

\* slope, aspect = calculate_slope_and_aspect(reference_dem); the two splines
\* over aligned_dem; offset_east, offset_north = 0.0, 0.0
DrvSetup ==
    /\ pc = "setup"
    /\ LET sa == calculate_slope_and_aspect(reference_dem)
       IN  slope' = sa.slope /\ aspect' = sa.aspect
    /\ elevation_function' = aligned_dem
    /\ nodata_function' = IsNanGrid(aligned_dem)
    /\ offset_east' = 0
    /\ offset_north' = 0
    /\ assigned' = assigned \cup {"slope", "aspect", "elevation_function",
                                  "nodata_function", "offset_east", "offset_north"}
    /\ pc' = "loop"
    /\ UNCHANGED <<aligned_dem, i, nmad, result, error, n_shift, n_resample, loop_exit, estimate_sum,
                   aligned_is_input>>
    /\ UNCHANGED <<nmVars, shVars, drVars, asVars, vrVars, rsVars, argVars>>

\* for i in trange(max_iterations, ...): one more index; the bias removal, the
\* elevation difference, the NMAD and the stopping rule of that iteration
DrvIterate ==
    /\ pc = "loop"
    /\ InRange(i, max_iterations)
    /\ LET unbiased == RemoveBias(aligned_dem, reference_dem)
           nmad_now == calculate_nmad(Flat(ElevationDifference(reference_dem, unbiased)))
       IN  /\ aligned_dem' = unbiased
           /\ dem_to_be_aligned' = WrittenThrough(dem_to_be_aligned, aligned_is_input, unbiased)
           /\ nmad' = nmad_now
           /\ IF StopNow(i, nmad_now, error_threshold)
              THEN /\ pc' = "after_loop"
                   /\ loop_exit' = [how |-> "break", aligned_dem |-> unbiased, nmad |-> nmad_now]
              ELSE /\ pc' = "estimate"
                   /\ loop_exit' = loop_exit
    /\ assigned' = assigned \cup {"i", "elevation_difference", "nmad"}
    /\ UNCHANGED <<slope, aspect, elevation_function, nodata_function, offset_east,
                   offset_north, i, result, error, n_shift, n_resample, estimate_sum,
                   aligned_is_input>>
    /\ UNCHANGED <<reference_dem, max_iterations, error_threshold, deramping_degree, verbose>>
    /\ UNCHANGED <<nmVars, shVars, drVars, asVars, vrVars, rsVars>>

\* for i in trange(max_iterations, ...): no index is left
DrvLoopExhausted ==
    /\ pc = "loop"
    /\ ~InRange(i, max_iterations)
    /\ pc' = "after_loop"
    /\ loop_exit' = [how |-> "exhausted", aligned_dem |-> aligned_dem, nmad |-> nmad]
    /\ UNCHANGED <<aligned_dem, slope, aspect, elevation_function, nodata_function,
                   offset_east, offset_north, i, nmad, assigned, result, error,
                   n_shift, n_resample, estimate_sum,
                   aligned_is_input>>
    /\ UNCHANGED <<nmVars, shVars, drVars, asVars, vrVars, rsVars, argVars>>

ShiftRaisedAndSkipped ==
    /\ pc' = "loop"
    /\ error' = error

\* east_diff, north_diff = get_horizontal_shift(...) raises: the call is not
\* inside a try, the ValueError leaves amaury_coregister_dem
ShiftRaised == Raise("ValueError")

\* offset_east += east_diff; offset_north += north_diff
AddOffset(offset, diff) == offset + diff

RebuiltSpline(spline, grid) == grid

\* The grid a spline is fitted to once an iteration has resampled: the loop
\* assigns neither elevation_function nor nodata_function, grid is what
\* the resampling produced.
KeptSpline(spline, grid) == spline

\* What get_horizontal_shift(elevation_difference, slope, aspect) does in the
\* iteration under way.
ShiftOutcome ==
    get_horizontal_shift(Flat(ElevationDifference(reference_dem, aligned_dem)),
                         Flat(slope), Flat(aspect), DefaultMinCount)

\* get_horizontal_shift raises and the ValueError leaves amaury_coregister_dem;
\* or it returns, the offsets are incremented, the splines are evaluated at the
\* offset coordinates and aligned_dem = new_elevation
DrvShiftAndResample ==
    /\ pc = "estimate"
    /\ LET outcome == ShiftOutcome
       IN  IF outcome.raised
           THEN /\ ShiftRaised
                /\ UNCHANGED <<aligned_dem, offset_east, offset_north, i, assigned,
                               n_shift, n_resample, estimate_sum, elevation_function,
                               nodata_function, aligned_is_input>>
           ELSE /\ \E est \in ShiftEstimates :
                    LET new_east  == AddOffset(offset_east, est[1])
                        new_north == AddOffset(offset_north, est[2])
                    IN  /\ new_east \in (-MaxOffset)..MaxOffset
                        /\ new_north \in (-MaxOffset)..MaxOffset
                        /\ offset_east' = new_east
                        /\ offset_north' = new_north
                        /\ estimate_sum' = <<estimate_sum[1] + est[1],
                                             estimate_sum[2] + est[2]>>
                        /\ aligned_dem' = Resample(elevation_function, nodata_function,
                                                   new_east, new_north)
                /\ aligned_is_input' = FALSE
                /\ elevation_function' = KeptSpline(elevation_function, aligned_dem')
                /\ nodata_function' = KeptSpline(nodata_function, IsNanGrid(aligned_dem'))
                /\ n_shift' = n_shift + 1
                /\ n_resample' = n_resample + 1
                /\ assigned' = assigned \cup {"east_diff", "north_diff", "new_elevation",
                                              "new_nans"}
                /\ i' = i + 1
                /\ pc' = "loop"
                /\ error' = error
    /\ UNCHANGED <<slope, aspect, nmad, result, loop_exit>>
    /\ UNCHANGED <<nmVars, shVars, drVars, asVars, vrVars, rsVars, argVars>>

DerampingTruthy(degree) == degree # None /\ degree # 0

\* if deramping_degree is not None
DerampingSet(degree) == degree # None

\* if verbose: print(f"Final easting offset: ... NMAD: {nmad:.3f} m")
DrvFinalPrint ==
    /\ pc = "after_loop"
    /\ IF verbose /\ "nmad" \notin assigned
       THEN Raise("UnboundLocalError")
       ELSE /\ pc' = IF DerampingSet(deramping_degree) THEN "deramp" ELSE "return"
            /\ error' = error
    /\ UNCHANGED <<aligned_dem, slope, aspect, elevation_function, nodata_function,
                   offset_east, offset_north, i, nmad, assigned, result,
                   n_shift, n_resample, loop_exit, estimate_sum,
                   aligned_is_input>>
    /\ UNCHANGED <<nmVars, shVars, drVars, asVars, vrVars, rsVars, argVars>>

\* if deramping_degree is not None: the elevation difference and its NMAD, the
\* fit of the ramp, aligned_dem -= ramp(...), the final NMAD
DrvDeramp ==
    /\ pc = "deramp"
    /\ \E coefficients \in FitCoefficients(deramping_degree) :
        LET deramped == GridSub(aligned_dem, RampGrid(aligned_dem, coefficients, deramping_degree))
        IN  /\ aligned_dem' = deramped
            /\ dem_to_be_aligned' = WrittenThrough(dem_to_be_aligned, aligned_is_input, deramped)
            /\ nmad' = calculate_nmad(Flat(ElevationDifference(reference_dem, deramped)))
    /\ assigned' = assigned \cup {"elevation_difference", "nmad", "x_coordinates",
                                  "y_coordinates", "ramp"}
    /\ pc' = "return"
    /\ UNCHANGED <<slope, aspect, elevation_function, nodata_function, offset_east,
                   offset_north, i, result, error, n_shift, n_resample, loop_exit, estimate_sum,
                   aligned_is_input>>
    /\ UNCHANGED <<reference_dem, max_iterations, error_threshold, deramping_degree, verbose>>
    /\ UNCHANGED <<nmVars, shVars, drVars, asVars, vrVars, rsVars>>

\* return aligned_dem, nmad
DrvReturn ==
    /\ pc = "return"
    /\ IF "nmad" \in assigned
       THEN /\ result' = <<aligned_dem, nmad>>
            /\ pc' = "done"
            /\ error' = error
       ELSE /\ Raise("UnboundLocalError")
            /\ result' = result
    /\ UNCHANGED <<aligned_dem, slope, aspect, elevation_function, nodata_function,
                   offset_east, offset_north, i, nmad, assigned,
                   n_shift, n_resample, loop_exit, estimate_sum,
                   aligned_is_input>>
    /\ UNCHANGED <<nmVars, shVars, drVars, asVars, vrVars, rsVars, argVars>>

Next ==
    \/ DrvCopyAndAssert
    \/ DrvSetup
    \/ DrvIterate
    \/ DrvLoopExhausted
    \/ DrvShiftAndResample
    \/ DrvFinalPrint
    \/ DrvDeramp
    \/ DrvReturn

Spec == DrvInit /\ [][Next]_vars

-----------------------------------------------------------------------------
(* amaury_coregister_dem: properties *)

\* What the loop left behind is what the statements after it work on: it is
\* held until the deramping, and returned when there is no deramping.
CarriedOn ==
    /\ pc \in {"after_loop", "deramp"} =>
           aligned_dem = loop_exit.aligned_dem /\ nmad = loop_exit.nmad
    /\ (pc \in {"return", "done"} /\ deramping_degree = None) =>
           aligned_dem = loop_exit.aligned_dem /\ nmad = loop_exit.nmad
    /\ (pc = "done" /\ deramping_degree = None) =>
           result = <<loop_exit.aligned_dem, loop_exit.nmad>>

\* C1: the loop is left before max_iterations is exhausted exactly when, at
\* the check of the iteration of index i, i > 5 and nmad < error_threshold.
\* An iteration that goes on to the shift estimation did not meet the rule;
\* an early exit happens at an index above 5 with the NMAD below the
\* threshold, after exactly i estimations and i resamplings, and the aligned
\* grid and the NMAD of that moment are carried unchanged to the deramping,
\* or to the result when there is no deramping.
C1_EarlyExitRule ==
    /\ pc = "estimate" => ~(i > 5 /\ nmad < error_threshold /\ ~IsNaN(nmad))
    /\ loop_exit.how = "break" =>
           /\ i > 5 /\ i < max_iterations
           /\ loop_exit.nmad < error_threshold /\ ~IsNaN(loop_exit.nmad)
           /\ n_shift = i /\ n_resample = i
           /\ CarriedOn
    /\ loop_exit.how = "exhausted" => i = max_iterations

\* An early exit at index 6, after the rule was met and ignored at the
\* indices 0..5, has returned.
C1_Witness ==
    /\ pc = "done" /\ loop_exit.how = "break" /\ i = 6 /\ n_shift = 6
    /\ deramping_degree = None

\* The number of statements the call can still run through, at most.
StepsLeft ==
    CASE pc = "call"       -> 2 * max_iterations + 6
      [] pc = "setup"      -> 2 * max_iterations + 5
      [] pc = "loop"       -> 2 * (max_iterations - i) + 4
      [] pc = "estimate"   -> 2 * (max_iterations - i) + 3
      [] pc = "after_loop" -> 3
      [] pc = "deramp"     -> 2
      [] pc = "return"     -> 1
      [] OTHER             -> 0

\* C2: for max_iterations >= 1 and an estimator that does not fail, the call
\* returns after at most max_iterations shift estimations: the estimations
\* never outnumber max_iterations, every step brings the end of the call
\* nearer, nothing follows the end, and with max_iterations >= 1 the call is
\* only ever over by
\* returning, by the ValueError of the estimator or by the failed assertion on
\* the shapes.  Exhausting max_iterations is no error, and the last aligned
\* grid and NMAD go on to the deramping or the result.
C2_BudgetRespected ==
    /\ [](n_shift <= max_iterations /\ i <= max_iterations /\ StepsLeft >= 0)
    /\ [][StepsLeft' < StepsLeft]_vars
    /\ [][pc \notin {"done", "raised"}]_vars
    /\ []((pc = "raised" /\ max_iterations >= 1) =>
             error \in {"ValueError", "AssertionError"})
    /\ []((loop_exit.how = "exhausted" /\ max_iterations >= 1) =>
             /\ error = "none"
             /\ i = max_iterations /\ n_shift = max_iterations
             /\ CarriedOn)
    /\ []((pc = "done" /\ max_iterations >= 1) =>
             n_shift <= max_iterations /\ error = "none")

\* A run that used all of its max_iterations >= 1 iterations has returned.
C2_Witness ==
    /\ pc = "done" /\ loop_exit.how = "exhausted"
    /\ max_iterations >= 1 /\ n_shift = max_iterations

\* C3: with max_iterations = 0 or 1 the call does not crash, whatever verbose
\* and deramping_degree are: it reads no variable the loop never assigned.
C3_ShortRunsDoNotCrash ==
    max_iterations \in {0, 1} => error # "UnboundLocalError"

\* C4: coregistering a grid against an identical copy of itself reaches the
\* result without error, with NMAD 0 and the offset (0, 0): the estimator
\* called on the all-zero elevation difference does not abort the run.
C4_IdenticalCopyConverges ==
    reference_dem = dem_to_be_aligned =>
        /\ error # "ValueError"
        /\ pc = "done" => result[2] = 0 /\ offset_east = 0 /\ offset_north = 0

\* C5: the ValueError of get_horizontal_shift leaves amaury_coregister_dem as
\* it is: the call of the estimator either returns, and is counted, or ends
\* amaury_coregister_dem with that error, with no result and nothing else
\* changed; no deramping, no further iteration or resampling and no retry
\* follow.
C5_EstimatorErrorPropagates ==
    /\ [][pc = "estimate" =>
             \/ /\ pc' = "loop" /\ error' = "none"
                /\ n_shift' = n_shift + 1 /\ n_resample' = n_resample + 1
                /\ i' = i + 1
             \/ /\ pc' = "raised" /\ error' = "ValueError"
                /\ result' = <<>>
                /\ UNCHANGED <<aligned_dem, nmad, i, n_shift, n_resample,
                               offset_east, offset_north, loop_exit>>]_vars
    /\ [](error = "ValueError" =>
             /\ pc = "raised"
             /\ result = <<>>
             /\ loop_exit.how = "none"
             /\ n_resample = n_shift /\ n_shift = i
             /\ "ramp" \notin assigned)
    /\ [][error # "ValueError"]_vars

\* The estimator has failed after iterations that went well.
C5_Witness == error = "ValueError" /\ pc = "raised" /\ n_shift >= 1

\* C6: when the two grids differ in shape the call fails before the slope and
\* the aspect are computed, before the splines are built and before any
\* iteration, and returns nothing.
C6_ShapeMismatchFailsFirst ==
    (NumRows(reference_dem) # NumRows(dem_to_be_aligned)
        \/ NumCols(reference_dem) # NumCols(dem_to_be_aligned)) =>
        /\ pc \in {"call", "raised"}
        /\ pc = "raised" => error = "AssertionError"
        /\ slope = NoGrid /\ aspect = NoGrid
        /\ elevation_function = NoGrid /\ nodata_function = NoGrid
        /\ assigned \subseteq {"aligned_dem"}
        /\ i = 0 /\ n_shift = 0 /\ n_resample = 0 /\ nmad = NaN
        /\ result = <<>>

\* The call with grids of different shapes has failed.
C6_Witness ==
    /\ NumCols(reference_dem) # NumCols(dem_to_be_aligned)
    /\ pc = "raised" /\ error = "AssertionError"

\* C16: the deramping runs exactly when deramping_degree is set, 0 included:
\* the call is at the deramping only with a degree that is not None; once
\* the call is past it, a ramp was fitted if and only if the degree is not
\* None; and with None the aligned grid and the NMAD are still those the
\* loop left behind, and they are what the call returns.
C16_DerampingOnlyWhenSet ==
    /\ pc = "deramp" => deramping_degree # None
    /\ pc \in {"return", "done"} =>
           (("ramp" \in assigned) <=> (deramping_degree # None))
    /\ (pc \in {"return", "done"} /\ deramping_degree = None) =>
           aligned_dem = loop_exit.aligned_dem /\ nmad = loop_exit.nmad
    /\ (pc = "done" /\ deramping_degree = None) =>
           result = <<loop_exit.aligned_dem, loop_exit.nmad>>

\* A call without deramping_degree has returned after iterations that moved
\* the grid.
C16_Witness ==
    /\ pc = "done" /\ deramping_degree = None /\ "ramp" \notin assigned
    /\ n_resample >= 1 /\ result = <<loop_exit.aligned_dem, loop_exit.nmad>>

\* C18 as stated: the splines are rebuilt in every iteration from the grid
\* the resampling produced, so that between two iterations the elevation
\* spline interpolates the aligned grid.
C18_SplineRebuiltEveryIteration ==
    (pc = "loop" /\ n_resample >= 1) =>
        /\ elevation_function = aligned_dem
        /\ nodata_function = IsNanGrid(aligned_dem)

\* C18: the two splines are built once, before the loop, from the copy of
\* dem_to_be_aligned, and no iteration rebuilds them: whatever the number of
\* resamplings, the surface sampled is the initial grid to be aligned.
C18_SplineBuiltOnce ==
    "elevation_function" \in assigned =>
        /\ elevation_function = Halves(dem_to_be_aligned)
        /\ nodata_function = IsNanGrid(Halves(dem_to_be_aligned))

\* Two resamplings were made, and the aligned grid is no longer the grid the
\* elevation spline interpolates.
C18_Witness ==
    /\ pc = "loop" /\ n_resample >= 2
    /\ aligned_dem # elevation_function
    /\ elevation_function = Halves(dem_to_be_aligned)

\* The offset state is (0, 0) until an estimate is added and is the sum of
\* the estimates get_horizontal_shift returned.
OffsetsAreSumOfEstimates ==
    /\ <<offset_east, offset_north>> = estimate_sum
    /\ n_shift = 0 => <<offset_east, offset_north>> = <<0, 0>>

\* C19 as stated: the offsets are the sum of the estimates, and a resampled
\* grid is the splines evaluated at the pixel coordinates plus the cumulative
\* offsets on both axes.
C19_ResampledAtCoordinatesPlusOffsets ==
    /\ OffsetsAreSumOfEstimates
    /\ (pc = "loop" /\ n_resample >= 1) =>
           \A r \in DOMAIN aligned_dem : \A c \in DOMAIN aligned_dem[r] :
               aligned_dem[r][c] =
                   IF SplineAt(nodata_function, NRows, NCols,
                               r + offset_north, c + offset_east) # 0
                   THEN NaN
                   ELSE SplineAt(elevation_function, NRows, NCols,
                                 r + offset_north, c + offset_east)

\* C19: the offsets start at (0, 0) and are the sum of the estimates
\* returned so far; a resampled grid is the splines evaluated at the column
\* plus the cumulative east offset and at the row minus the cumulative north
\* offset.
C19_ResampledAtEastPlusNorthMinus ==
    /\ OffsetsAreSumOfEstimates
    /\ (pc = "loop" /\ n_resample >= 1) =>
           \A r \in DOMAIN aligned_dem : \A c \in DOMAIN aligned_dem[r] :
               aligned_dem[r][c] =
                   IF SplineAt(nodata_function, NRows, NCols,
                               r - offset_north, c + offset_east) # 0
                   THEN NaN
                   ELSE SplineAt(elevation_function, NRows, NCols,
                                 r - offset_north, c + offset_east)

\* Two estimates have added up to the offset (1, 1), and the grid was
\* resampled there.
C19_Witness ==
    /\ pc = "loop" /\ n_resample >= 2
    /\ <<offset_east, offset_north>> = <<1, 1>>
    /\ estimate_sum = <<1, 1>>

\* C22: on every successful exit with max_iterations >= 1 the returned NMAD
\* is the NMAD of reference_dem minus the returned aligned grid.
C22_ReturnedNmadIsOfReturnedGrid ==
    (pc = "done" /\ max_iterations >= 1) =>
        result[2] = calculate_nmad(Flat(ElevationDifference(reference_dem, result[1])))

\* C23: without deramping and with max_iterations >= 1 the returned aligned
\* grid has no median bias against the reference, whether the loop ended by
\* the stopping rule or by exhausting max_iterations.
C23_ReturnedGridHasNoBias ==
    (pc = "done" /\ max_iterations >= 1 /\ deramping_degree = None) =>
        nanmedian2(Flat(GridSub(result[1], Halves(reference_dem)))) = 0

\* C24: no step of amaury_coregister_dem changes reference_dem or
\* dem_to_be_aligned, in runs that return and in runs that raise, with any
\* max_iterations and deramping_degree; and once slope and aspect are
\* computed, no step changes them.
C24_InputsNotModified ==
    [][/\ reference_dem' = reference_dem
       /\ dem_to_be_aligned' = dem_to_be_aligned
       /\ "slope" \in assigned => slope' = slope /\ aspect' = aspect]_vars

\* The bias was removed in place from the working grid, before any
\* resampling replaced it, and the input still holds other values.
C24_Witness ==
    /\ pc = "estimate" /\ n_resample = 0 /\ ~aligned_is_input
    /\ aligned_dem # Halves(dem_to_be_aligned)

-----------------------------------------------------------------------------
(* calculate_nmad called on its own: the arrays it is given *)

\* longest array drawn
MaxLen == 4
\* largest finite value drawn
MaxVal == 2

NmVals == (0..MaxVal) \cup {NaN, PosInf, NegInf}

SeqsUpTo(S, n) == UNION {[1..k -> S] : k \in 0..n}

\* The array of the worked example of the NMAD together with the drawn ones.
NmArrays == SeqsUpTo(NmVals, MaxLen) \cup {<<1, 2, 3, 4, 5>>}

SwapAt(a, p) ==
    [k \in 1..Len(a) |-> IF k = p THEN a[p + 1] ELSE IF k = p + 1 THEN a[p] ELSE a[k]]

InsertAt(a, p, v) ==
    [k \in 1..(Len(a) + 1) |-> IF k < p THEN a[k] ELSE IF k = p THEN v ELSE a[k - 1]]

RemoveAt(a, p) ==
    [k \in 1..(Len(a) - 1) |-> IF k < p THEN a[k] ELSE a[k + 1]]

NmInit ==
    /\ AsIdle
    /\ VrIdle
    /\ RsIdle
    /\ DrvIdle
    /\ ShIdle
    /\ DrIdle
    /\ nm_pc = "input"
    /\ nm_array \in NmArrays
    /\ nm_result = NaN
    /\ nm_prev = NaN
    /\ nm_last_op = "none"

\* The call with the next array: a = the array, op = how it was obtained.
NmCallWith(a, op) ==
    /\ nm_array' = a
    /\ nm_prev' = nm_result
    /\ nm_result' = calculate_nmad(a)
    /\ nm_last_op' = op
    /\ nm_pc' = "returned"
    /\ UNCHANGED <<shVars, drVars, asVars, vrVars, rsVars, argVars, drvVars>>

\* calculate_nmad(array)
NmCall ==
    /\ nm_pc = "input"
    /\ NmCallWith(nm_array, "none")

\* calculate_nmad on the same values in another order
NmCallPermuted ==
    /\ nm_pc = "returned"
    /\ \E p \in 1..(Len(nm_array) - 1) : NmCallWith(SwapAt(nm_array, p), "permute")

\* calculate_nmad on the array with one more nan
NmCallNanInserted ==
    /\ nm_pc = "returned"
    /\ Len(nm_array) < MaxLen
    /\ \E p \in 1..(Len(nm_array) + 1) : NmCallWith(InsertAt(nm_array, p, NaN), "insert_nan")

\* calculate_nmad on the array with one nan less
NmCallNanRemoved ==
    /\ nm_pc = "returned"
    /\ \E p \in 1..Len(nm_array) :
        /\ IsNaN(nm_array[p])
        /\ NmCallWith(RemoveAt(nm_array, p), "remove_nan")

\* calculate_nmad on the array with one more infinite value
NmCallInfInserted ==
    /\ nm_pc = "returned"
    /\ Len(nm_array) < MaxLen
    /\ \E p \in 1..(Len(nm_array) + 1), v \in {PosInf, NegInf} :
        NmCallWith(InsertAt(nm_array, p, v), "insert_inf")

\* calculate_nmad on the array with one infinite value less
NmCallInfRemoved ==
    /\ nm_pc = "returned"
    /\ \E p \in 1..Len(nm_array) :
        /\ nm_array[p] \in {PosInf, NegInf}
        /\ NmCallWith(RemoveAt(nm_array, p), "remove_inf")

NmNext ==
    \/ NmCall
    \/ NmCallPermuted
    \/ NmCallNanInserted
    \/ NmCallNanRemoved
    \/ NmCallInfInserted
    \/ NmCallInfRemoved

SpecNmad == NmInit /\ [][NmNext]_vars

\* The value of rank r (r = 0 for the lowest) among the values of s: fewer
\* than r + 1 values are below it, more than r are not above it.
ValueAtRank(s, r) ==
    CHOOSE v \in {s[k] : k \in 1..Len(s)} :
        /\ Cardinality({k \in 1..Len(s) : s[k] < v}) <= r
        /\ Cardinality({k \in 1..Len(s) : s[k] <= v}) > r

\* Twice the median of the values of a that satisfy Taken: the sum of the two
\* values of middle rank, nan when none is taken.
MedianOf2(a, Taken(_)) ==
    LET s == SelectSeq(a, Taken)
        n == Len(s)
    IN  IF n = 0 THEN NaN
        ELSE FAdd(ValueAtRank(s, (n - 1) \div 2), ValueAtRank(s, n \div 2))

\* NmadDen times 1.4826 * median(|x - median(x)|), both medians over the
\* values that satisfy Taken.
NmadOver(a, Taken(_)) ==
    LET m2  == MedianOf2(a, Taken)
        dev == [k \in 1..Len(a) |->
                   IF Taken(a[k]) THEN FAbs(FSub(FScale(2, a[k]), m2)) ELSE NaN]
        d2  == MedianOf2(dev, LAMBDA v : ~IsNaN(v))
    IN  IF IsFinite(d2) THEN NmadFactor * d2 ELSE d2

NotNan(v) == ~IsNaN(v)

\* C9 as it reads: calculate_nmad returns 1.4826 times the median of
\* |x - median(x)|, both medians over the finite values only; it is never
\* negative, 0 when the finite values are all equal, 1.4826 for [1,2,3,4,5].
C9_MediansOverFiniteValues ==
    nm_pc = "returned" =>
        /\ nm_result = NmadOver(nm_array, IsFinite)
        /\ ~(nm_result < 0)
        /\ (\E k \in 1..Len(nm_array) : IsFinite(nm_array[k])
              /\ \A j \in 1..Len(nm_array) :
                    IsFinite(nm_array[j]) => nm_array[j] = nm_array[k])
              => nm_result = 0
        /\ nm_array = <<1, 2, 3, 4, 5>> => nm_result = 14826 * 4

\* C9, amended: calculate_nmad returns 1.4826 times the median of
\* |x - median(x)|, both medians over the values that are not nan (an
\* infinite value counts, and a deviation inf - inf is nan and is left out);
\* it is never negative, 0 when the values that are not nan are finite and
\* all equal, 1.4826 for [1,2,3,4,5].
C9_MediansOverNonNanValues ==
    nm_pc = "returned" =>
        /\ nm_result = NmadOver(nm_array, NotNan)
        /\ ~(nm_result < 0)
        /\ (\E k \in 1..Len(nm_array) : IsFinite(nm_array[k])
              /\ \A j \in 1..Len(nm_array) :
                    ~IsNaN(nm_array[j]) => nm_array[j] = nm_array[k])
              => nm_result = 0
        /\ nm_array = <<1, 2, 3, 4, 5>> => nm_result = 14826 * 4

\* The call on an array with a nan, an infinite value and finite values has
\* returned a finite NMAD above 0.
C9_Witness ==
    /\ nm_pc = "returned"
    /\ \E k \in 1..Len(nm_array) : IsNaN(nm_array[k])
    /\ \E k \in 1..Len(nm_array) : nm_array[k] = PosInf
    /\ IsFinite(nm_result) /\ nm_result > 0

\* C10 as it reads: calculate_nmad depends only on the multiset of the finite
\* values: a permutation, and the insertion or removal of a value that is not
\* finite, leave the result unchanged; the result is nan when no value is
\* finite.
C10_OnlyFiniteValuesMatter ==
    /\ nm_last_op # "none" => nm_result = nm_prev
    /\ (nm_pc = "returned" /\ \A k \in 1..Len(nm_array) : ~IsFinite(nm_array[k]))
          => IsNaN(nm_result)

\* C10, amended: calculate_nmad depends only on the multiset of the values
\* that are not nan: a permutation, and the insertion or removal of a nan,
\* leave the result unchanged; the result is nan, not an error, when every
\* value is nan.
C10_OnlyNonNanValuesMatter ==
    /\ nm_last_op \in {"permute", "insert_nan", "remove_nan"} => nm_result = nm_prev
    /\ (nm_pc = "returned" /\ \A k \in 1..Len(nm_array) : IsNaN(nm_array[k]))
          => IsNaN(nm_result)

\* A nan has been inserted among values whose NMAD is finite and above 0.
C10_Witness ==
    /\ nm_last_op = "insert_nan" /\ nm_result = nm_prev
    /\ IsFinite(nm_result) /\ nm_result > 0

-----------------------------------------------------------------------------
(* get_horizontal_shift called on its own: the arrays it is given *)

\* a min_count below the default one
SmallMinCount == 2
\* most bins filled above min_count
MostFullBins == 11
\* most bins filled with exactly min_count samples
MostEdgeBins == 2
\* samples far below, and far above, all the others
GuardSamples == 8
\* most calls on one family of arrays
MaxCalls == 3

\* n samples (elevation difference, slope, aspect) with y = 0 and the aspect
\* strictly inside the slice of index b.
SamplesInBin(b, n) ==
    [k \in 1..n |-> <<0, 1, AspectStep * b + 1 + ((7 * k) % (AspectStep - 1))>>]

\* full slices hold min_count + 1 samples, the next edge slices hold
\* min_count, one more holds min_count - 1 and the others none.
BinSize(b, full, edge, min_count) ==
    IF b < full THEN min_count + 1
    ELSE IF b < full + edge THEN min_count
    ELSE IF b = full + edge THEN min_count - 1
    ELSE 0

RECURSIVE BinnedSamples(_, _, _, _)
BinnedSamples(b, full, edge, min_count) ==
    IF b > full + edge THEN <<>>
    ELSE SamplesInBin(b, BinSize(b, full, edge, min_count))
            \o BinnedSamples(b + 1, full, edge, min_count)

\* Samples that are no finite (x, y) pair, and samples on the bound between
\* two slices.
OddSamples ==
    <<  <<NaN, 1, AspectStep \div 2>>, <<1, 0, AspectStep \div 2>>,
        <<0, 0, AspectStep \div 2>>, <<0, 1, NaN>>, <<0, 1, PosInf>>,
        <<0, 1, 0>>, <<0, 1, AspectStep>>, <<0, 1, 2 * AspectStep>>  >>

\* Samples whose y is the lowest and the highest of all: the two percentiles
\* fall on them.
Guards ==
    [k \in 1..(2 * GuardSamples) |->
        <<IF k % 2 = 0 THEN -1 ELSE 1, 1, AspectStep \div 2>>]

ShiftArrays(full, edge, min_count, odd, guarded) ==
    BinnedSamples(0, full, edge, min_count)
        \o (IF odd THEN OddSamples ELSE <<>>)
        \o (IF guarded THEN Guards ELSE <<>>)

Column(samples, n) == [k \in 1..Len(samples) |-> samples[k][n]]

\* The calls get_horizontal_shift(elevation_difference, slope, aspect, min_count)
ShiftInputs ==
    {[min_count |-> min_count,
      samples |-> ShiftArrays(full, edge, min_count, odd, guarded)] :
        min_count \in {SmallMinCount, DefaultMinCount},
        full \in (MinBins - 2)..MostFullBins, edge \in 0..MostEdgeBins,
        odd \in BOOLEAN, guarded \in BOOLEAN}

ShInit ==
    /\ AsIdle
    /\ VrIdle
    /\ RsIdle
    /\ DrvIdle
    /\ NmIdle
    /\ DrIdle
    /\ sh_pc = "input"
    /\ \E input \in ShiftInputs :
          /\ sh_min_count = input.min_count
          /\ sh_difference = Column(input.samples, 1)
          /\ sh_slope = Column(input.samples, 2)
          /\ sh_aspect = Column(input.samples, 3)
    /\ sh_result = <<>>
    /\ sh_calls = 0

\* get_horizontal_shift(elevation_difference, slope, aspect, min_count)
ShCall ==
    /\ sh_pc = "input"
    /\ sh_result' = get_horizontal_shift(sh_difference, sh_slope, sh_aspect, sh_min_count)
    /\ sh_calls' = sh_calls + 1
    /\ sh_pc' = "returned"
    /\ UNCHANGED <<sh_difference, sh_slope, sh_aspect, sh_min_count>>
    /\ UNCHANGED <<nmVars, drVars, asVars, vrVars, rsVars, argVars, drvVars>>

\* The caller comes back with one more sample in one of the slices.
ShOneMoreSample ==
    /\ sh_pc = "returned"
    /\ sh_calls < MaxCalls
    /\ \E b \in {MinBins - 2, MinBins - 1, MinBins} :
        /\ sh_difference' = Append(sh_difference, 0)
        /\ sh_slope' = Append(sh_slope, 1)
        /\ sh_aspect' = Append(sh_aspect, AspectStep * b + AspectStep \div 2)
    /\ sh_pc' = "input"
    /\ UNCHANGED <<sh_min_count, sh_result, sh_calls>>
    /\ UNCHANGED <<nmVars, drVars, asVars, vrVars, rsVars, argVars, drvVars>>

ShNext ==
    \/ ShCall
    \/ ShOneMoreSample

SpecShift == ShInit /\ [][ShNext]_vars

\* The retained samples of the last call whose aspect is strictly inside the
\* slice of index b.
RetainedInBin(b) ==
    Cardinality({k \in 1..Len(sh_result.retained) :
                    /\ AspectStep * b < sh_result.retained[k][1]
                    /\ sh_result.retained[k][1] < AspectStep * (b + 1)})

\* The slices that hold at least n retained samples.
BinsHolding(n) == {b \in 0..71 : RetainedInBin(b) >= n}

C8_ThirtySamplesSuffice ==
    (sh_pc = "returned" /\ sh_min_count = 30 /\ Cardinality(BinsHolding(30)) >= 10) =>
        ~sh_result.raised

\* C20: the outlier filter retains a finite sample y exactly when y lies in
\* the closed range from the 1st to the 99th percentile of the finite samples
\* and |y| < 200: a sample equal to one of the two percentiles is kept.
C20_ClosedPercentileRange ==
    sh_pc = "returned" =>
        LET finite == FiniteSamples(sh_difference, sh_slope, sh_aspect)
            ys == [k \in 1..Len(finite) |-> finite[k][2]]
            lower100 == Percentile100(ys, 1)
            upper100 == Percentile100(ys, 99)
        IN  Len(finite) > 0 =>
                sh_result.retained =
                    SelectSeq(finite, LAMBDA p :
                        /\ lower100 <= 100 * p[2]
                        /\ 100 * p[2] <= upper100
                        /\ (IF p[2] < 0 THEN -p[2] ELSE p[2]) < YCap * YDen)

-----------------------------------------------------------------------------
(* deramping and its estimate_values called on their own *)

\* largest degree
MaxDegree == 3
\* largest x and y coordinate at which the polynomial is evaluated
MaxCoordinate == 2
\* most finite samples above SubsampleLimit
ExtraSamples == 2

\* The numbers of finite elevation differences deramping is given.
ValidCounts == {1, 2} \cup {SubsampleLimit + d : d \in (-1)..ExtraSamples}

Coordinates == (0..MaxCoordinate) \X (0..MaxCoordinate)

\* The coefficient vectors estimate_values is handed directly: of every
\* length up to one more than the longest that is right.
DrawnVectors ==
    {[k \in 1..n |-> k] : n \in 0..(CoefficientSize(MaxDegree) + 1)}
        \cup {[k \in 1..n |-> 0] : n \in 0..(CoefficientSize(MaxDegree) + 1)}

DrInit ==
    /\ AsIdle
    /\ VrIdle
    /\ RsIdle
    /\ DrvIdle
    /\ NmIdle
    /\ ShIdle
    /\ dr_degree \in 0..MaxDegree
    /\ \/ dr_pc = "call" /\ dr_n \in ValidCounts /\ dr_coefficients = <<>>
       \/ dr_pc = "evaluator" /\ dr_n = 0 /\ dr_coefficients \in DrawnVectors
    /\ dr_fit_size = 0 /\ dr_draw = NoDraw /\ dr_pick = <<>>
    /\ dr_terms = {} /\ dr_xy = <<>> /\ dr_value = 0 /\ dr_error = "none"

\* estimate_values(x, y, coefficients, degree): the ValueError of the length
\* check, or the value of the polynomial; next is where the caller goes on.
Evaluate(coefficients, xy, next) ==
    /\ dr_coefficients' = coefficients
    /\ dr_xy' = xy
    /\ IF EvaluatorRaises(coefficients, dr_degree)
       THEN /\ dr_error' = "ValueError"
            /\ dr_pc' = "raised"
            /\ UNCHANGED <<dr_value, dr_terms>>
       ELSE /\ dr_value' = estimate_values(xy[1], xy[2], coefficients, dr_degree)
            /\ dr_terms' = TermsRead(dr_degree)
            /\ dr_pc' = next
            /\ dr_error' = dr_error
    /\ UNCHANGED <<dr_degree, dr_n, dr_fit_size, dr_draw, dr_pick>>
    /\ UNCHANGED <<nmVars, shVars, asVars, vrVars, rsVars, argVars, drvVars>>

\* estimate_values handed a coefficient vector of any length
DrEvaluatorCalled ==
    /\ dr_pc = "evaluator"
    /\ \E xy \in Coordinates : Evaluate(dr_coefficients, xy, "evaluated")

\* valid_diffs, valid_x_coords, valid_y_coords; the random subsample when
\* there are more than 500,000 of them
DrExtractAndSubsample ==
    /\ dr_pc = "call"
    /\ IF dr_n > SubsampleLimit
       THEN /\ dr_fit_size' = SubsampleLimit
            /\ dr_draw' = RandomIndexRange(dr_n)
       ELSE /\ dr_fit_size' = dr_n
            /\ dr_draw' = [low |-> 0, high |-> dr_n - 1]
    /\ \E idx \in {0, dr_n - 2, dr_n - 1} :
        /\ dr_draw'.low <= idx /\ idx <= dr_draw'.high
        /\ dr_pick' = <<idx, idx, idx>>
    /\ dr_pc' = "guess"
    /\ UNCHANGED <<dr_degree, dr_n, dr_coefficients, dr_terms, dr_xy, dr_value, dr_error>>
    /\ UNCHANGED <<nmVars, shVars, asVars, vrVars, rsVars, argVars, drvVars>>

\* initial_guess = np.zeros(...)
DrInitialGuess ==
    /\ dr_pc = "guess"
    /\ dr_coefficients' = initial_guess(dr_degree)
    /\ dr_pc' = "fit"
    /\ UNCHANGED <<dr_degree, dr_n, dr_fit_size, dr_draw, dr_pick, dr_terms, dr_xy,
                   dr_value, dr_error>>
    /\ UNCHANGED <<nmVars, shVars, asVars, vrVars, rsVars, argVars, drvVars>>

\* scipy.optimize.leastsq calls residuals, which calls estimate_values
DrResiduals ==
    /\ dr_pc = "fit"
    /\ \E trial \in LeastsqTrials(dr_coefficients), xy \in Coordinates :
        Evaluate(trial, xy, "fit")

\* coefficients, *_ = scipy.optimize.leastsq(...); return ramp
DrFitted ==
    /\ dr_pc = "fit"
    /\ dr_pc' = "returned"
    /\ UNCHANGED <<dr_degree, dr_n, dr_fit_size, dr_draw, dr_pick, dr_coefficients,
                   dr_terms, dr_xy, dr_value, dr_error>>
    /\ UNCHANGED <<nmVars, shVars, asVars, vrVars, rsVars, argVars, drvVars>>

\* ramp(x_coordinates, y_coordinates)
DrRamp ==
    /\ dr_pc = "returned"
    /\ \E xy \in Coordinates : Evaluate(dr_coefficients, xy, "returned")

DrNext ==
    \/ DrEvaluatorCalled
    \/ DrExtractAndSubsample
    \/ DrInitialGuess
    \/ DrResiduals
    \/ DrFitted
    \/ DrRamp

SpecDeramp == DrInit /\ [][DrNext]_vars

\* estimate_values has returned a value.
Evaluated == dr_pc \in {"evaluated", "fit", "returned"} /\ dr_xy # <<>>

\* C11: for every degree d >= 0 the coefficient index k*(k+1)/2 + j maps the
\* exponent pairs (k-j, j), 0 <= j <= k <= d, one-to-one onto the indices
\* 0 .. (d+1)(d+2)/2 - 1: every coefficient is read for exactly one monomial
\* and no index is outside the coefficient vector.
C11_IndexIsOneToOneAndOnto ==
    Evaluated =>
        /\ {<<t[2], t[3]>> : t \in dr_terms}
              = {<<a, b>> \in (0..dr_degree) \X (0..dr_degree) : a + b <= dr_degree}
        /\ {t[1] : t \in dr_terms} = 0..(((dr_degree + 1) * (dr_degree + 2)) \div 2 - 1)
        /\ \A t, u \in dr_terms : t[1] = u[1] => t = u
        /\ \A t \in dr_terms : t[1] + 1 \in DOMAIN dr_coefficients

\* The polynomial of the largest degree has been evaluated.
C11_Witness == Evaluated /\ dr_degree = MaxDegree /\ dr_pc = "returned"

\* C12: for degree 1 the coefficient vector is ordered (bias, x-coefficient,
\* y-coefficient): estimate_values with the coefficients [1, 2, 3] returns
\* 1 + 2x + 3y at every coordinate pair (x, y).
C12_DegreeOneOrder ==
    (Evaluated /\ dr_degree = 1 /\ dr_coefficients = <<1, 2, 3>>) =>
        dr_value = 1 + 2 * dr_xy[1] + 3 * dr_xy[2]

\* The plane has been evaluated at x = 1, y = 2.
C12_Witness ==
    /\ Evaluated /\ dr_degree = 1 /\ dr_coefficients = <<1, 2, 3>>
    /\ dr_xy = <<1, 2>> /\ dr_value = 9

\* C13: estimate_values raises whenever the length of the coefficient vector
\* differs from (d+1)(d+2)/2, and deramping itself never makes it raise: the
\* initial guess, every vector of the fit and the coefficients of the
\* returned ramp have that length.
C13_LengthCheck ==
    /\ dr_pc = "raised" =>
          /\ dr_error = "ValueError"
          /\ 2 * Len(dr_coefficients) # (dr_degree + 1) * (dr_degree + 2)
    /\ Evaluated => 2 * Len(dr_coefficients) = (dr_degree + 1) * (dr_degree + 2)
    /\ dr_n >= 1 => dr_error = "none" /\ dr_pc # "raised"
    /\ dr_pc \in {"fit", "returned"} =>
          2 * Len(dr_coefficients) = (dr_degree + 1) * (dr_degree + 2)

\* estimate_values has raised on a vector that is one coefficient too long.
C13_Witness ==
    /\ dr_pc = "raised" /\ dr_error = "ValueError"
    /\ 2 * (Len(dr_coefficients) - 1) = (dr_degree + 1) * (dr_degree + 2)

\* C14: with more than 500,000 finite samples the fit gets exactly 500,000
\* samples drawn from all n of them, so that every index 0 .. n-1, the last
\* one included, can be drawn, the value and both coordinates of a sample
\* coming from one index; with at most 500,000 all n samples are used.
C14_SubsampleOfAllSamples ==
    dr_fit_size > 0 =>
        /\ dr_fit_size = (IF dr_n > 500000 THEN 500000 ELSE dr_n)
        /\ dr_draw.low = 0 /\ dr_draw.high = dr_n - 1
        /\ dr_pick[1] = dr_pick[2] /\ dr_pick[2] = dr_pick[3]

-----------------------------------------------------------------------------
(* calculate_slope_and_aspect on planar grids *)

AsRows == 3
AsCols == 3
MaxGradient == 3

\* The plane that rises by a per column and by b per row
Plane(a, b) == [r \in 0..(AsRows - 1) |-> [c \in 0..(AsCols - 1) |-> a * c + b * r]]

PlaneGradients == ((-MaxGradient)..MaxGradient) \X ((-MaxGradient)..MaxGradient)

AsInit ==
    /\ DrvIdle
    /\ NmIdle
    /\ ShIdle
    /\ DrIdle
    /\ VrIdle
    /\ RsIdle
    /\ as_pc = "input"
    /\ as_gradient \in PlaneGradients
    /\ as_dem = Plane(as_gradient[1], as_gradient[2])
    /\ as_slope = NoGrid /\ as_aspect = NoGrid /\ as_prev = NoGrid
    /\ as_last_op = "none"

\* slope_px, aspect = calculate_slope_and_aspect(dem)
AsCall ==
    /\ as_pc = "input"
    /\ LET returned == calculate_slope_and_aspect(as_dem)
       IN  /\ as_slope' = returned.slope
           /\ as_aspect' = returned.aspect
    /\ as_prev' = as_aspect
    /\ as_pc' = "returned"
    /\ UNCHANGED <<as_dem, as_gradient, as_last_op>>
    /\ UNCHANGED <<nmVars, shVars, drVars, vrVars, rsVars, argVars, drvVars>>

\* The caller's next grid: the last one with its rows in reverse order, so
\* that gradient_y changes sign and gradient_x stays.
AsMirrorRows ==
    /\ as_pc = "returned"
    /\ as_gradient' = <<as_gradient[1], -as_gradient[2]>>
    /\ as_dem' = Plane(as_gradient[1], -as_gradient[2])
    /\ as_last_op' = "mirror_rows"
    /\ as_pc' = "input"
    /\ UNCHANGED <<as_slope, as_aspect, as_prev>>
    /\ UNCHANGED <<nmVars, shVars, drVars, vrVars, rsVars, argVars, drvVars>>

\* The caller's next grid: the last one with its columns in reverse order,
\* so that gradient_x changes sign and gradient_y stays.
AsMirrorCols ==
    /\ as_pc = "returned"
    /\ as_gradient' = <<-as_gradient[1], as_gradient[2]>>
    /\ as_dem' = Plane(-as_gradient[1], as_gradient[2])
    /\ as_last_op' = "mirror_cols"
    /\ as_pc' = "input"
    /\ UNCHANGED <<as_slope, as_aspect, as_prev>>
    /\ UNCHANGED <<nmVars, shVars, drVars, vrVars, rsVars, argVars, drvVars>>

AsNext == AsCall \/ AsMirrorRows \/ AsMirrorCols

SpecAspect == AsInit /\ [][AsNext]_vars

\* C15: the aspect depends on the sign of both gradient components: a plane
\* and the same plane with its rows reversed (gradient_y of the other sign,
\* not zero) are given different aspects.
C15_AspectFollowsBothComponents ==
    (as_pc = "returned" /\ as_last_op = "mirror_rows" /\ as_gradient[2] # 0)
        => as_aspect # as_prev

-----------------------------------------------------------------------------
(* DEM.set_vref of xdem/dem.py *)

MaxVrefCalls == 3

\* The value None where a str is expected
NoStr == "<None>"

\* isinstance(v, str)
IsStr(v) == v # NoStr

\* The names and grid file names set_vref is called with
VrefNames == {"WGS84", "EGM96", "EGM08", "NAVD88", NoStr}
VrefGrids == {"us_noaa_geoid06_ak.tif", NoStr}

\* The DEM after __init__: vref and vref_grid are the user's or None.  What
\* compute_ccrs=True adds is left out, set_vref is called with its default.
VrInit ==
    /\ DrvIdle
    /\ NmIdle
    /\ ShIdle
    /\ DrIdle
    /\ AsIdle
    /\ RsIdle
    /\ vr_pc = "ready"
    /\ vr_name = NoStr /\ vr_grid = NoStr
    /\ vref \in {NoStr, "EGM96"}
    /\ vref_grid = NoStr
    /\ vr_error = "none"
    /\ vr_calls = 0

\* dem.set_vref(vref_name=..., vref_grid=...) is called, also after a call
\* whose ValueError was caught
VrCall ==
    /\ vr_pc \in {"ready", "returned", "raised"}
    /\ vr_calls < MaxVrefCalls
    /\ vr_name' \in VrefNames
    /\ vr_grid' \in VrefGrids
    /\ vr_calls' = vr_calls + 1
    /\ vr_error' = "none"
    /\ vr_pc' = "called"
    /\ UNCHANGED <<vref, vref_grid>>
    /\ UNCHANGED <<nmVars, shVars, drVars, asVars, rsVars, argVars, drvVars>>

\* The body of set_vref.  The test on "WGS84" is an if of its own: the
\* if / elif / else on "EGM08" and "EGM96" follows it whatever its outcome.
VrSetVref ==
    /\ vr_pc = "called"
    /\ IF IsStr(vr_name)
       THEN LET after_wgs84 ==
                    IF vr_name = "WGS84"
                    THEN [vref_grid |-> NoStr, vref |-> "WGS84"]
                    ELSE [vref_grid |-> vref_grid, vref |-> vref]
            IN  IF vr_name = "EGM08"
                THEN /\ vref_grid' = "us_nga_egm08_25.tif"
                     /\ vref' = "EGM08"
                     /\ vr_pc' = "returned"
                     /\ vr_error' = vr_error
                ELSE IF vr_name = "EGM96"
                THEN /\ vref_grid' = "us_nga_egm96_15.tif"
                     /\ vref' = "EGM96"
                     /\ vr_pc' = "returned"
                     /\ vr_error' = vr_error
                ELSE /\ vref_grid' = after_wgs84.vref_grid
                     /\ vref' = after_wgs84.vref
                     /\ vr_pc' = "raised"
                     /\ vr_error' = "ValueError"
       ELSE IF ~IsStr(vr_grid)
       THEN /\ vr_pc' = "raised"
            /\ vr_error' = "ValueError"
            /\ UNCHANGED <<vref, vref_grid>>
       ELSE /\ vref' = "Unknown vertical reference name"
            /\ vref_grid' = vr_grid
            /\ vr_pc' = "returned"
            /\ vr_error' = vr_error
    /\ UNCHANGED <<vr_name, vr_grid, vr_calls>>
    /\ UNCHANGED <<nmVars, shVars, drVars, asVars, rsVars, argVars, drvVars>>

VrNext == VrCall \/ VrSetVref

SpecVref == VrInit /\ [][VrNext]_vars

\* C17: called with a name, set_vref accepts "WGS84", "EGM96" and "EGM08"
\* without raising, vref being then the name and vref_grid None,
\* us_nga_egm96_15.tif and us_nga_egm08_25.tif; every other name raises
\* ValueError.
C17_ThreeNamesAccepted ==
    (vr_pc \in {"returned", "raised"} /\ vr_name # NoStr) =>
        IF vr_name \in {"WGS84", "EGM96", "EGM08"}
        THEN /\ vr_pc = "returned" /\ vr_error = "none"
             /\ vref = vr_name
             /\ vref_grid = (CASE vr_name = "WGS84" -> NoStr
                               [] vr_name = "EGM96" -> "us_nga_egm96_15.tif"
                               [] vr_name = "EGM08" -> "us_nga_egm08_25.tif")
        ELSE vr_pc = "raised" /\ vr_error = "ValueError"

-----------------------------------------------------------------------------
(* amaury_coregister_dem: the masking of a resampled grid, on its own *)

\* cells of the resampled grid
MaskCells == 2
\* largest size of a value of the no-data spline
MaxMask == 1
\* largest value of the elevation spline
MaxElevation == 1
\* What the no-data spline returns at offsets that are not whole pixels: a
\* cubic spline through the 0/1 grid of np.isnan overshoots on both sides,
\* its values are negative, 0 or positive.
MaskValues == (-MaxMask)..MaxMask

\* What the elevation spline returns
ElevationValues == (0..MaxElevation) \cup {NaN}

RsInit ==
    /\ DrvIdle
    /\ NmIdle
    /\ ShIdle
    /\ DrIdle
    /\ AsIdle
    /\ VrIdle
    /\ rs_pc = "resample"
    /\ new_elevation = <<>>
    /\ new_nans = <<>>
    /\ rs_aligned_dem = <<>>

\* new_elevation = elevation_function(...); new_nans = nodata_function(...)
RsEvaluate ==
    /\ rs_pc = "resample"
    /\ new_elevation' \in [1..MaskCells -> ElevationValues]
    /\ new_nans' \in [1..MaskCells -> MaskValues]
    /\ rs_pc' = "evaluated"
    /\ UNCHANGED rs_aligned_dem
    /\ UNCHANGED <<nmVars, shVars, drVars, asVars, vrVars, argVars, drvVars>>

\* new_elevation[new_nans != 0] = np.nan; aligned_dem = new_elevation
RsMask ==
    /\ rs_pc = "evaluated"
    /\ rs_aligned_dem' = [k \in 1..MaskCells |->
                             IF IsNewNan(new_nans[k]) THEN NaN ELSE new_elevation[k]]
    /\ rs_pc' = "assigned"
    /\ UNCHANGED <<new_elevation, new_nans>>
    /\ UNCHANGED <<nmVars, shVars, drVars, asVars, vrVars, argVars, drvVars>>

RsNext == RsEvaluate \/ RsMask

SpecResample == RsInit /\ [][RsNext]_vars

\* C21 as stated: a cell of the new aligned grid is non-finite when the
\* resampled mask is greater than 0 there, and keeps the value of the
\* elevation spline when the mask is 0 or negative.
C21_MaskAbovezero ==
    rs_pc = "assigned" =>
        \A k \in 1..MaskCells :
            /\ new_nans[k] > 0 => rs_aligned_dem[k] = NaN
            /\ new_nans[k] <= 0 => rs_aligned_dem[k] = new_elevation[k]

\* C21: a cell of the new aligned grid is non-finite when the resampled mask
\* is not 0 there, negative values included, whatever the elevation spline
\* returned; it keeps the value of the elevation spline when the mask is 0.
C21_MaskNonzero ==
    rs_pc = "assigned" =>
        \A k \in 1..MaskCells :
            /\ new_nans[k] # 0 => rs_aligned_dem[k] = NaN
            /\ new_nans[k] = 0 => rs_aligned_dem[k] = new_elevation[k]

\* A resampling whose mask was negative at a cell with a finite elevation, and
\* 0 at the next cell.
C21_Witness ==
    /\ rs_pc = "assigned"
    /\ new_nans[1] < 0 /\ new_elevation[1] # NaN /\ rs_aligned_dem[1] = NaN
    /\ new_nans[2] = 0 /\ rs_aligned_dem[2] = new_elevation[2]

====
